---- MODULE Spec2Model ----
(***************************************************************************)
(* RNGClass of "Modified libraries/Crypto/src/RNG.cpp": the entropy pool   *)
(* (ChaCha input block, keystream buffer, entropy credits, seed store,     *)
(* auto-save timer, noise-source registry) as a state machine.             *)
(*                                                                         *)
(* Values that the code only moves around (hash outputs, noise bytes,      *)
(* TRNG words) are symbolic terms.  ChaCha::hashCore is an opaque          *)
(* function: its output is the term <<"hash", input block>>, so two        *)
(* outputs are equal exactly when their input blocks are equal.            *)
(*                                                                         *)
(* The 64-byte block is the record                                         *)
(*   pre  : what words 0..3 hold ("tag" = tagRNG, "zero" = cleaned)        *)
(*   base : what words 4..15 were last set to as a whole                   *)
(*   ctr  : how often ++block[12] ran since then                           *)
(*   x    : what was XORed onto words 4..15 since then, in order           *)
(*                                                                         *)
(* Two builds are modelled: "AVR" (RNG_EEPROM + RNG_WATCHDOG, 16-bit       *)
(* size_t and unsigned int) and "ESP32" (RNG_WORD_TRNG + RNG_ESP_NVS,      *)
(* 32-bit).  NVS and EEPROM accesses are taken to succeed.                 *)
(***************************************************************************)
EXTENDS Integers, Sequences, FiniteSets, TLC

\* ---------------------------------------------------------------- constants
RNG_ROUNDS == 20
RNG_REKEY_BLOCKS == 16
RNG_MAX_CREDITS == 384
SEED_SIZE == 48
MAX_NOISE_SOURCES == 4
TIMEOUT_MS == 3600000
MINUTE_MS == 60000
\* credits is a 13-bit bit-field of RNGClass (RNG.h): arithmetic on it wraps
\* modulo 2^13.
CREDITS_MODULUS == 2^13
TWO16 == 2^16
\* millis(), timer and timeout are 32-bit counts of milliseconds.  The model
\* counts in units of 32 ms, of which 2^27 make 2^32 ms, so that the
\* wrap-around is exact for every clock reading that is a multiple of 32 ms
\* (60000 ms = 1875 units).
MS_UNIT == 2^5
CLOCK_MODULUS == 2^27
DEFAULT_TIMEOUT == TIMEOUT_MS \div MS_UNIT

\* ------------------------------------------------------------------- bounds
\* Number of API calls (and clock ticks, power cycles) in one behaviour.
MaxSteps == 3

Platforms == {"AVR", "ESP32"}

VARIABLES
    platform,     \* the build: which #if branches are compiled in
    block,        \* uint32_t block[16], the ChaCha input block
    stream,       \* uint32_t stream[16], the keystream buffer
    credits,      \* entropy credits, in bits
    firstSave,    \* 1 until the first save triggered by credits maxing out
    initialized,  \* 1 once begin() has completed
    trngPending,  \* 1 if loop() XORed TRNG data that was not yet stirred
    timer,        \* millis() of the last save
    timeout,      \* auto-save interval in milliseconds
    count,        \* number of registered noise sources
    noiseSources, \* NoiseSource *noiseSources[4]: the registered sources, in order
    trngPosn,     \* rotating word offset for TRNG data
    hash,         \* watchdog jitter accumulator (RNG_WATCHDOG)
    outBits,      \* number of samples in hash (RNG_WATCHDOG)
    store,        \* the persisted seed: EEPROM tail / NVS blob "seed"
    now,          \* millis()
    log,          \* the primitive steps of the most recent API call, in order
    lastOut,      \* keystream value the most recent rand() block was copied from
    lastCall,     \* the most recent API call and its arguments
    prevCall,     \* the API call before the most recent one
    prev,         \* the engine state when the most recent API call started
    steps,        \* number of steps taken so far
    wdt           \* the foreground's place in a cli() ... sei() section around
                  \* the jitter accumulator, the interrupt flag, the local
                  \* `value`, and the samples added and taken so far

vars == <<platform, block, stream, credits, firstSave, initialized, trngPending,
          timer, timeout, count, noiseSources, trngPosn, hash, outBits, store, now, log,
          lastOut, lastCall, prevCall, prev, steps, wdt>>

\* ------------------------------------------------------------------- widths
\* size_t and unsigned int have 16 bits on AVR and 32 bits on ESP32.  Every
\* length and credit of the model is below 2^28, so 32-bit arithmetic on
\* them never wraps.
FitsSize(p, len) == p = "AVR" => len < TWO16
UInt(p, n) == IF p = "AVR" THEN n % TWO16 ELSE n
U16(n) == n % TWO16
\* 32-bit clock arithmetic, in clock units
Clock32(n) == n % CLOCK_MODULUS

\* -------------------------------------------------------------------- terms
ZeroBlock == [pre |-> "zero", base |-> <<"zero">>, ctr |-> 0, x |-> <<>>]
ZeroStream == <<"zero">>
NoOut == <<"none">>
Erased == <<"erased">>
\* tagRNG followed by initRNG, as begin() builds it
InitBlock == [pre |-> "tag", base |-> <<"init">>, ctr |-> 0, x |-> <<>>]

\* ChaCha::hashCore(stream, block, RNG_ROUNDS)
hashCore(b) == <<"hash", b>>

\* block[posn + 4] ^= ... : XOR an item onto the mutable region
XorInto(b, item) == [b EXCEPT !.x = Append(@, item)]

Ev(name, n) == <<name, n>>

\* The engine state as one record, so that the member functions below are
\* operators from state to state.
Engine ==
    [platform |-> platform, block |-> block, stream |-> stream,
     credits |-> credits, firstSave |-> firstSave, initialized |-> initialized,
     trngPending |-> trngPending, timer |-> timer, timeout |-> timeout,
     count |-> count, noiseSources |-> noiseSources, trngPosn |-> trngPosn,
     hash |-> hash, outBits |-> outBits,
     store |-> store, now |-> now, log |-> <<>>, lastOut |-> lastOut]

\* ---------------------------------------------------------- member functions
Events(s, evs) == [s EXCEPT !.log = @ \o evs]

\* rekey() copying all of stream over the block, prefix included
rekeyOverPrefix(s) ==
    LET b1 == [s.block EXCEPT !.ctr = @ + 1]
        st == hashCore(b1)
        b2 == [pre |-> "stream", base |-> st, ctr |-> 0, x |-> <<>>]
        b3 == XorInto(b2, <<"micros", 13>>)
    IN  [s EXCEPT !.block = b3, !.stream = st,
                  !.log = @ \o <<Ev("rekey", 0), Ev("inc", 0), Ev("perm", 0),
                                 Ev("copy48", 0), Ev("micros", 0)>>]

\* rekey() without "++(block[12]);"
rekeyNoIncrement(s) ==
    LET st == hashCore(s.block)
        b2 == [pre |-> s.block.pre, base |-> st, ctr |-> 0, x |-> <<>>]
        b3 == XorInto(b2, <<"micros", 13>>)
    IN  [s EXCEPT !.block = b3, !.stream = st,
                  !.log = @ \o <<Ev("rekey", 0), Ev("perm", 0),
                                 Ev("copy48", 0), Ev("micros", 0)>>]

\* RNGClass::rekey()
rekey(s) ==
    LET \* ++(block[12]);
        b1 == [s.block EXCEPT !.ctr = @ + 1]
        \* ChaCha::hashCore(stream, block, RNG_ROUNDS);
        st == hashCore(b1)
        \* memcpy(block + 4, stream, 48);
        b2 == [pre |-> b1.pre, base |-> st, ctr |-> 0, x |-> <<>>]
        \* block[13] ^= micros();
        b3 == XorInto(b2, <<"micros", 13>>)
    IN  [s EXCEPT !.block = b3, !.stream = st,
                  !.log = @ \o <<Ev("rekey", 0), Ev("inc", 0), Ev("perm", 0),
                                 Ev("copy48", 0), Ev("micros", 0)>>]

\* crypto_crc8(tag, data, size): an external function of the library, taken
\* as opaque and injective (a changed tag byte or changed data gives a
\* changed checksum).
crypto_crc8(tag, data) == <<"crc", tag, data>>

\* save() that never reaches the seed store
writeSeedSkipped(s) == s

\* The seed store part of RNGClass::save(): RNG_EEPROM writes SEED_SIZE - 1
\* bytes of stream and their CRC-8, RNG_ESP_NVS writes a blob of SEED_SIZE
\* bytes.  The store is <<"seed", data, t>> with t the checksum byte (AVR)
\* or the length of the blob (ESP32).
writeSeed(s) ==
    [s EXCEPT !.store = <<"seed", s.stream,
                          IF s.platform = "AVR" THEN crypto_crc8("S", s.stream)
                          ELSE SEED_SIZE>>,
              !.log = Append(@, Ev("store", IF s.platform = "AVR"
                                            THEN SEED_SIZE - 1 ELSE SEED_SIZE))]

\* save() without the rekey() after the seed is written
saveNoRekey(s) ==
    LET b1 == [s.block EXCEPT !.ctr = @ + 1]
        s1 == [s EXCEPT !.block = b1, !.stream = hashCore(b1),
                        !.log = @ \o <<Ev("save", 0), Ev("inc", 0), Ev("perm", 0)>>]
        s2 == writeSeed(s1)
    IN  [s2 EXCEPT !.timer = s2.now, !.log = Append(@, Ev("timer", 0))]

\* RNGClass::save()
save(s) ==
    LET \* ++(block[12]); ChaCha::hashCore(stream, block, RNG_ROUNDS);
        b1 == [s.block EXCEPT !.ctr = @ + 1]
        s1 == [s EXCEPT !.block = b1, !.stream = hashCore(b1),
                        !.log = @ \o <<Ev("save", 0), Ev("inc", 0), Ev("perm", 0)>>]
        s2 == rekey(writeSeed(s1))
        \* timer = millis();
    IN  [s2 EXCEPT !.timer = s2.now, !.log = Append(@, Ev("timer", 0))]

\* The credit arithmetic at the top of RNGClass::stir()
stirCredit(p, len, credit) ==
    IF (credit \div 8) >= len /\ len # 0 THEN UInt(p, len * 8) ELSE credit

\* stirCredits without the saturation at RNG_MAX_CREDITS
stirCreditsUncapped(p, cur, len, credit) ==
    (cur + stirCredit(p, len, credit)) % CREDITS_MODULUS

stirCredits(p, cur, len, credit) ==
    LET c == stirCredit(p, len, credit)
    IN  IF U16(RNG_MAX_CREDITS - cur) > c
        THEN (cur + c) % CREDITS_MODULUS
        ELSE RNG_MAX_CREDITS

\* The data XORed on in one piece, whatever its length, and one rekey
stirChunksWhole(s, data, off, len) ==
    rekey([s EXCEPT !.block = XorInto(@, <<"data", <<data, off, len>>>>),
                    !.log = Append(@, Ev("xor", len))])

\* while (len > 0) { XOR up to 48 bytes onto block + 4; rekey(); }
RECURSIVE stirChunks(_, _, _, _)
stirChunks(s, data, off, len) ==
    IF len = 0 THEN s
    ELSE LET templen == IF len > 48 THEN 48 ELSE len
             s1 == [s EXCEPT !.block = XorInto(@, <<"data", <<data, off, templen>>>>),
                             !.log = Append(@, Ev("xor", templen))]
         IN  stirChunks(rekey(s1), data, off + templen, len - templen)

\* stir() that leaves firstSave set when it saves
stirKeepsFirstSave(s, data, len, credit) ==
    LET s1 == [s EXCEPT !.credits = stirCredits(s.platform, s.credits, len, credit),
                        !.log = Append(@, Ev("stir", len))]
        s2 == IF len > 0 THEN stirChunks(s1, data, 0, len) ELSE rekey(s1)
    IN  IF s2.firstSave = 1 /\ s2.credits >= RNG_MAX_CREDITS
        THEN save(s2)
        ELSE s2

\* RNGClass::stir(data, len, credit)
stir(s, data, len, credit) ==
    LET s1 == [s EXCEPT !.credits = stirCredits(s.platform, s.credits, len, credit),
                        !.log = Append(@, Ev("stir", len))]
        s2 == IF len > 0 THEN stirChunks(s1, data, 0, len) ELSE rekey(s1)
    IN  IF s2.firstSave = 1 /\ s2.credits >= RNG_MAX_CREDITS
        THEN save([s2 EXCEPT !.firstSave = 0])
        ELSE s2

\* RNGClass::mixTRNG()
mixTRNG(s) ==
    IF s.platform = "ESP32"
    THEN \* for (index = 4; index < 16; ++index) block[index] ^= RNG_WORD_TRNG_GET();
         [s EXCEPT !.block = XorInto(@, <<"trng12", 0>>),
                   !.log = @ \o <<Ev("mixTRNG", 0), Ev("xor", 48)>>]
    ELSE \* RNG_WATCHDOG: take the accumulator if it holds 32 samples
         IF s.outBits >= 32
         THEN [s EXCEPT !.hash = 0, !.outBits = 0,
                        !.block = XorInto(@, <<"jitter", 0>>),
                        !.log = @ \o <<Ev("mixTRNG", 0), Ev("xor", 4)>>]
         ELSE Events(s, <<Ev("mixTRNG", 0)>>)

\* crypto_crc8('S', stream, SEED_SIZE - 1) == stream[SEED_SIZE - 1] (RNG_EEPROM),
\* nvs_get_blob(...) == 0 && len == SEED_SIZE (RNG_ESP_NVS).  Erased storage
\* is 48 bytes of 0xFF in EEPROM, whose checksum is not 0xFF, and no blob at
\* all in NVS.
seedValid(p, st) ==
    IF st = Erased THEN FALSE
    ELSE IF p = "AVR" THEN crypto_crc8("S", st[2]) = st[3]
    ELSE st[3] = SEED_SIZE

\* The load part of begin() never finding a seed
loadSeedIgnored(s) ==
    [s EXCEPT !.stream = IF s.platform = "AVR" THEN <<"eeprom", s.store>> ELSE s.stream,
              !.log = @ \o <<Ev("load", SEED_SIZE)>>]

\* The load part of begin() taking whatever the store holds
loadSeedUnchecked(s) ==
    [s EXCEPT !.stream = IF s.platform = "AVR" THEN <<"eeprom", s.store>> ELSE s.stream,
              !.block = XorInto(@, <<"seed", s.store>>),
              !.log = @ \o <<Ev("load", SEED_SIZE), Ev("xorseed", 48)>>]

\* The load part of RNGClass::begin()
loadSeed(s) ==
    LET \* eeprom_read_block(stream, address, SEED_SIZE) overwrites stream
        st == IF s.platform = "AVR" THEN <<"eeprom", s.store>> ELSE s.stream
    IN  IF seedValid(s.platform, s.store)
        THEN \* for (posn = 0; posn < 12; ++posn) block[posn + 4] ^= ...
             [s EXCEPT !.stream = st, !.block = XorInto(@, <<"seed", s.store>>),
                       !.log = @ \o <<Ev("load", SEED_SIZE), Ev("xorseed", 48)>>]
        ELSE [s EXCEPT !.stream = st, !.log = @ \o <<Ev("load", SEED_SIZE)>>]

NoTag == <<"null", 0>>
\* The device identifier begin() stirs in: __TIME__ __DATE__ (19 characters)
\* on AVR, the 8-byte MAC address on ESP32.
DeviceIdLen(p) == IF p = "AVR" THEN 19 ELSE 8

\* beginBody without the save() before the engine is marked ready
beginBodyNoSave(s, tag) ==
    LET s1 == [s EXCEPT !.block = InitBlock,
                        !.log = @ \o <<Ev("begin", 0), Ev("init", 0)>>]
        s2 == loadSeed(s1)
        s3 == IF s.platform = "ESP32" THEN mixTRNG(s2) ELSE s2
        s4 == [s3 EXCEPT !.credits = 0, !.firstSave = 1]
        s5 == rekey(s4)
        s6 == IF tag # NoTag THEN stir(s5, tag[1], tag[2], 0) ELSE s5
        s7 == stir(s6, "deviceid", DeviceIdLen(s.platform), 0)
    IN  [s7 EXCEPT !.initialized = 1, !.log = Append(@, Ev("ready", 0))]

\* beginBody without "credits = 0;"
beginBodyKeepsCredits(s, tag) ==
    LET s1 == [s EXCEPT !.block = InitBlock,
                        !.log = @ \o <<Ev("begin", 0), Ev("init", 0)>>]
        s2 == loadSeed(s1)
        s3 == IF s.platform = "ESP32" THEN mixTRNG(s2) ELSE s2
        s4 == [s3 EXCEPT !.firstSave = 1]
        s5 == rekey(s4)
        s6 == IF tag # NoTag THEN stir(s5, tag[1], tag[2], 0) ELSE s5
        s7 == stir(s6, "deviceid", DeviceIdLen(s.platform), 0)
        s8 == save(s7)
    IN  [s8 EXCEPT !.initialized = 1, !.log = Append(@, Ev("ready", 0))]

\* RNGClass::begin(tag), past the "if (initialized) return;" guard
beginBody(s, tag) ==
    LET \* memcpy_P(block, tagRNG, 16); memcpy_P(block + 4, initRNG, 48);
        s1 == [s EXCEPT !.block = InitBlock,
                        !.log = @ \o <<Ev("begin", 0), Ev("init", 0)>>]
        s2 == loadSeed(s1)
        s3 == IF s.platform = "ESP32" THEN mixTRNG(s2) ELSE s2
        s4 == [s3 EXCEPT !.credits = 0, !.firstSave = 1]
        s5 == rekey(s4)
        s6 == IF tag # NoTag THEN stir(s5, tag[1], tag[2], 0) ELSE s5
        s7 == stir(s6, "deviceid", DeviceIdLen(s.platform), 0)
        s8 == save(s7)
    IN  [s8 EXCEPT !.initialized = 1, !.log = Append(@, Ev("ready", 0))]

\* begin() with its guard inverted
beginGuardInverted(s, tag) == IF s.initialized = 0 THEN s ELSE beginBody(s, tag)

\* begin() without its guard
beginUnguarded(s, tag) == beginBody(s, tag)

\* RNGClass::begin(tag)
begin(s, tag) == IF s.initialized = 1 THEN s ELSE beginBody(s, tag)

\* rand() that takes no credit
randCreditsKept(cur, len) == cur

\* The credit arithmetic at the top of RNGClass::rand()
randCredits(cur, len) ==
    IF U16(len) > (cur \div 8) THEN 0 ELSE (cur - len * 8) % CREDITS_MODULUS

\* randBody copying a whole 64-byte block also when fewer bytes are wanted
randBodyWholeBlocks(ls) ==
    IF ls.len = 0 THEN ls
    ELSE LET s1 == IF ls.cnt >= RNG_REKEY_BLOCKS THEN rekey(ls.s) ELSE ls.s
             c1 == IF ls.cnt >= RNG_REKEY_BLOCKS THEN 1 ELSE ls.cnt + 1
             b1 == [s1.block EXCEPT !.ctr = @ + 1]
             st == hashCore(b1)
         IN  [s   |-> [s1 EXCEPT !.block = b1, !.stream = st, !.lastOut = st,
                                 !.log = @ \o <<Ev("inc", 0), Ev("perm", 0), Ev("out", 64)>>],
              len |-> IF ls.len < 64 THEN 0 ELSE ls.len - 64,
              cnt |-> c1]

\* randBody that never rekeys inside the loop
randBodyNoRekey(ls) ==
    IF ls.len = 0 THEN ls
    ELSE LET b1 == [ls.s.block EXCEPT !.ctr = @ + 1]
             st == hashCore(b1)
             n  == IF ls.len < 64 THEN ls.len ELSE 64
         IN  [s   |-> [ls.s EXCEPT !.block = b1, !.stream = st, !.lastOut = st,
                                   !.log = @ \o <<Ev("inc", 0), Ev("perm", 0), Ev("out", n)>>],
              len |-> ls.len - n,
              cnt |-> ls.cnt]

\* One pass through the body of the generation loop of RNGClass::rand().
\* ls.s is the engine, ls.len the bytes still wanted (0 once the loop has
\* been left), ls.cnt the uint8_t count.
randBody(ls) ==
    IF ls.len = 0 THEN ls
    ELSE LET \* if (count >= RNG_REKEY_BLOCKS) { rekey(); count = 1; } else ++count;
             s1 == IF ls.cnt >= RNG_REKEY_BLOCKS THEN rekey(ls.s) ELSE ls.s
             c1 == IF ls.cnt >= RNG_REKEY_BLOCKS THEN 1 ELSE ls.cnt + 1
             \* ++(block[12]); ChaCha::hashCore(stream, block, RNG_ROUNDS);
             b1 == [s1.block EXCEPT !.ctr = @ + 1]
             st == hashCore(b1)
             \* memcpy(data, stream, len) and break, or memcpy(data, stream, 64)
             n  == IF ls.len < 64 THEN ls.len ELSE 64
         IN  [s   |-> [s1 EXCEPT !.block = b1, !.stream = st, !.lastOut = st,
                                 !.log = @ \o <<Ev("inc", 0), Ev("perm", 0), Ev("out", n)>>],
              len |-> ls.len - n,
              cnt |-> c1]

\* randBody n times over
RECURSIVE randIter(_, _)
randIter(ls, n) ==
    IF ls.len = 0 \/ n = 0 THEN ls
    ELSE IF n = 1 THEN randBody(ls)
    ELSE randIter(randIter(ls, n \div 2), n - (n \div 2))

\* while (len > 0) { ... }: the body runs until len is 0, which takes no more
\* than len / 64 + 1 passes.
randLoop(s, len) == randIter([s |-> s, len |-> len, cnt |-> 0], (len \div 64) + 1).s

\* rand() that takes no notice of trngPending
randIgnoresPending(s, len) ==
    LET s0 == Events(s, <<Ev("rand", len)>>)
        s1 == IF s0.initialized = 0 THEN begin(s0, NoTag) ELSE s0
        s2 == [s1 EXCEPT !.credits = randCredits(s1.credits, len)]
        s4 == randLoop(Events(mixTRNG(s2), <<Ev("generate", 0)>>), len)
    IN  rekey(s4)

\* rand() without the rekey() that ends it
randNoFinalRekey(s, len) ==
    LET s0 == Events(s, <<Ev("rand", len)>>)
        s1 == IF s0.initialized = 0 THEN begin(s0, NoTag) ELSE s0
        s2 == [s1 EXCEPT !.credits = randCredits(s1.credits, len)]
        s3 == IF s2.trngPending = 1
              THEN [stir(s2, "null", 0, 0) EXCEPT !.trngPending = 0, !.trngPosn = 0]
              ELSE mixTRNG(s2)
    IN  randLoop(Events(s3, <<Ev("generate", 0)>>), len)

\* rand() down to the test of trngPending: begin() if need be, credits
randStart(s, len) ==
    LET s0 == Events(s, <<Ev("rand", len)>>)
        s1 == IF s0.initialized = 0 THEN begin(s0, NoTag) ELSE s0
    IN  [s1 EXCEPT !.credits = randCredits(s1.credits, len)]

\* rand() from the generation loop on
randEnd(s, len) == rekey(randLoop(Events(s, <<Ev("generate", 0)>>), len))

\* RNGClass::rand(data, len)
rand(s, len) ==
    LET s2 == randStart(s, len)
        s3 == IF s2.trngPending = 1
              THEN [stir(s2, "null", 0, 0) EXCEPT !.trngPending = 0, !.trngPosn = 0]
              ELSE mixTRNG(s2)
    IN  randEnd(s3, len)

\* available() without the cap at RNG_MAX_CREDITS
availableNoCap(cur, len) == U16(len) <= (cur \div 8)

\* RNGClass::available(len)
available(cur, len) ==
    IF len >= (RNG_MAX_CREDITS \div 8)
    THEN cur >= RNG_MAX_CREDITS
    ELSE U16(len) <= (cur \div 8)

\* A call of available(len): a const member function, its return value is
\* the last entry of the log (1 for true, 0 for false).
availableCall(s, len) ==
    Events(s, <<Ev("available", len),
                Ev("return", IF available(s.credits, len) THEN 1 ELSE 0)>>)

\* destroy() that leaves the persisted seed in place
destroyKeepsSeed(s) ==
    [s EXCEPT !.block = ZeroBlock, !.stream = ZeroStream, !.initialized = 0,
              !.log = @ \o <<Ev("destroy", 0), Ev("clean", 0)>>]

\* RNGClass::destroy()
destroy(s) ==
    [s EXCEPT !.block = ZeroBlock, !.stream = ZeroStream, !.store = Erased,
              !.initialized = 0,
              !.log = @ \o <<Ev("destroy", 0), Ev("clean", 0), Ev("erase", SEED_SIZE)>>]

NoNoise == <<0, 0>>

\* noiseSources[posn]->stir(): the source either has nothing to give or
\* calls RNG.stir(buffer, len, credit) with its own credit.
sourceStir(s, posn, noise) ==
    LET s0 == Events(s, <<Ev("source", s.noiseSources[posn + 1])>>)
    IN  IF noise = NoNoise THEN s0 ELSE stir(s0, "noise", noise[1], noise[2])

\* for (posn = 0; posn < count; ++posn) noiseSources[posn]->stir();
RECURSIVE pollSources(_, _, _)
pollSources(s, posn, noise) ==
    IF posn >= s.count THEN s
    ELSE pollSources(sourceStir(s, posn, noise), posn + 1, noise)

\* The hardware part of RNGClass::loop()
\* the hardware step of loop() without the wrap of trngPosn at 12
loopTRNGNoWrap(s) ==
    [s EXCEPT !.block = XorInto(@, <<"trng", s.trngPosn>>),
              !.trngPosn = @ + 1,
              !.credits = IF @ < RNG_MAX_CREDITS THEN (@ + 1) % CREDITS_MODULUS ELSE @,
              !.trngPending = 1,
              !.log = @ \o <<Ev("xorword", 4 + s.trngPosn), Ev("pending", 0)>>]

\* The watchdog branch of loop() after sei(), with the word taken from the
\* accumulator: credit it, XOR it into the block, advance the offset
loopWord(s) ==
    LET c  == (s.credits + 4) % CREDITS_MODULUS
        s1 == [s EXCEPT !.credits = IF c > RNG_MAX_CREDITS
                                    THEN RNG_MAX_CREDITS ELSE c,
                        !.block = XorInto(@, <<"jitter", s.trngPosn>>),
                        !.log = Append(@, Ev("xorword", 4 + s.trngPosn))]
    IN  IF s1.trngPosn + 1 >= 12
        THEN stir([s1 EXCEPT !.trngPosn = 0, !.trngPending = 0], "null", 0, 0)
        ELSE [s1 EXCEPT !.trngPosn = @ + 1, !.trngPending = 1,
                        !.log = Append(@, Ev("pending", 0))]

loopTRNG(s) ==
    IF s.platform = "ESP32"
    THEN \* RNG_WORD_TRNG
         [s EXCEPT !.block = XorInto(@, <<"trng", s.trngPosn>>),
                   !.trngPosn = IF @ + 1 >= 12 THEN 0 ELSE @ + 1,
                   !.credits = IF @ < RNG_MAX_CREDITS THEN (@ + 1) % CREDITS_MODULUS ELSE @,
                   !.trngPending = 1,
                   !.log = @ \o <<Ev("xorword", 4 + s.trngPosn), Ev("pending", 0)>>]
    ELSE \* RNG_WATCHDOG
         IF s.outBits >= 32
         THEN loopWord([s EXCEPT !.hash = 0, !.outBits = 0])
         ELSE s

\* The end of loop(): if ((millis() - timer) >= timeout) save();
loopEnd(s) == IF Clock32(s.now - s.timer) >= s.timeout THEN save(s) ELSE s

\* loop() taking millis() - timer without the 32-bit wrap-around
loopSignedClock(s, noise) ==
    LET s1 == pollSources(Events(s, <<Ev("loop", 0)>>), 0, noise)
        s2 == loopTRNG(s1)
    IN  IF s2.now - s2.timer >= s2.timeout THEN save(s2) ELSE s2

\* RNGClass::loop()
loop(s, noise) ==
    LET s1 == pollSources(Events(s, <<Ev("loop", 0)>>), 0, noise)
    IN  loopEnd(loopTRNG(s1))

\* addNoiseSource() without the capacity test: the fifth source lands
\* behind the array
addNoiseSourceUnchecked(s, source) ==
    [s EXCEPT !.count = @ + 1, !.noiseSources = Append(@, source),
              !.log = @ \o <<Ev("addNoiseSource", source), Ev("added", source)>>]

\* RNGClass::addNoiseSource(source)
addNoiseSource(s, source) ==
    IF s.count < MAX_NOISE_SOURCES
    THEN \* noiseSources[count++] = &source; source.added();
         [s EXCEPT !.count = @ + 1, !.noiseSources = Append(@, source),
                   !.log = @ \o <<Ev("addNoiseSource", source), Ev("added", source)>>]
    ELSE Events(s, <<Ev("addNoiseSource", source)>>)

\* The sources an application registers next: one it has not registered
\* yet, or the first one once more.
SourceChoices(s) ==
    {s.count + 1} \cup (IF s.count > 0 THEN {s.noiseSources[1]} ELSE {})

\* RNGClass::setAutoSaveTime(minutes)
setAutoSaveTime(s, minutes) ==
    LET m == IF minutes = 0 THEN 1 ELSE minutes
    IN  [s EXCEPT !.timeout = Clock32(m * (MINUTE_MS \div MS_UNIT)),
                  !.log = Append(@, Ev("setAutoSaveTime", minutes))]

\* RNGClass::RNGClass() for the global RNG object: block and stream are in
\* zero-initialised static storage.
Constructed(p, st) ==
    [platform |-> p, block |-> ZeroBlock, stream |-> ZeroStream, credits |-> 0,
     firstSave |-> 1, initialized |-> 0, trngPending |-> 0, timer |-> 0,
     timeout |-> DEFAULT_TIMEOUT, count |-> 0, noiseSources |-> <<>>,
     trngPosn |-> 0, hash |-> 0,
     outBits |-> 0, store |-> st, now |-> 0, log |-> <<>>, lastOut |-> NoOut]

\* ----------------------------------------------------------- specification
Call(op, len, credit, tag) == [op |-> op, len |-> len, credit |-> credit, tag |-> tag]

InstallEngine(s) ==
    /\ platform' = s.platform       /\ block' = s.block
    /\ stream' = s.stream           /\ credits' = s.credits
    /\ firstSave' = s.firstSave     /\ initialized' = s.initialized
    /\ trngPending' = s.trngPending /\ timer' = s.timer
    /\ timeout' = s.timeout         /\ count' = s.count
    /\ trngPosn' = s.trngPosn       /\ hash' = s.hash
    /\ outBits' = s.outBits         /\ store' = s.store
    /\ now' = s.now                 /\ log' = s.log
    /\ lastOut' = s.lastOut         /\ noiseSources' = s.noiseSources

Install(s) == InstallEngine(s) /\ wdt' = wdt

Step(s, call) ==
    /\ steps < MaxSteps
    /\ Install(s)
    /\ lastCall' = call
    /\ prevCall' = lastCall
    /\ prev' = Engine
    /\ steps' = steps + 1

\* Inputs of the API calls
TagSet == {NoTag, <<"v1", 2>>}
StirInputs == {<<0, 0>>, <<0, 100>>, <<1, 100>>, <<32, 64>>, <<48, 383>>,
               <<48, 1000>>, <<100, 384>>}
RandLens == {0, 1, 48, 64, 65, 1088}
NoiseInputs == {NoNoise, <<32, 64>>}
AvailLens == {0, 8, 48}
MinuteSet == {0, 1}
\* one minute and one hour, in clock units
TickSet == {MINUTE_MS \div MS_UNIT, TIMEOUT_MS \div MS_UNIT}

NoCall == Call("none", 0, 0, NoTag)

\* No watchdog section in progress, interrupts enabled
WdtIdle == [pc |-> "idle", fn |-> "none", len |-> 0, ints |-> 1, value |-> 0,
            fed |-> 0, got |-> 0]

Init ==
    /\ platform \in Platforms
    /\ block = ZeroBlock        /\ stream = ZeroStream
    /\ credits = 0              /\ firstSave = 1
    /\ initialized = 0          /\ trngPending = 0
    /\ timer = 0                /\ timeout = DEFAULT_TIMEOUT
    /\ count = 0                /\ trngPosn = 0
    /\ hash = 0                 /\ outBits = 0
    /\ store = Erased           /\ now = 0
    /\ log = <<>>               /\ lastOut = NoOut
    /\ noiseSources = <<>>
    /\ lastCall = NoCall
    /\ prevCall = NoCall
    /\ prev = Constructed(platform, Erased)
    /\ steps = 0
    /\ wdt = WdtIdle

Begin == \E tag \in TagSet : Step(begin(Engine, tag), Call("begin", tag[2], 0, tag))

Stir == \E in \in StirInputs :
            Step(stir(Engine, "user", in[1], in[2]), Call("stir", in[1], in[2], NoTag))

Rand == \E len \in RandLens :
            /\ FitsSize(platform, len)
            /\ Step(rand(Engine, len), Call("rand", len, 0, NoTag))

Save == Step(save(Engine), Call("save", 0, 0, NoTag))

Loop == \E noise \in NoiseInputs :
            /\ (count = 0 => noise = NoNoise)
            /\ Step(loop(Engine, noise), Call("loop", noise[1], noise[2], NoTag))

Destroy == Step(destroy(Engine), Call("destroy", 0, 0, NoTag))

Available == \E len \in AvailLens :
            Step(availableCall(Engine, len), Call("available", len, 0, NoTag))

AddNoiseSource == \E source \in SourceChoices(Engine) :
            Step(addNoiseSource(Engine, source), Call("addNoiseSource", source, 0, NoTag))

SetAutoSaveTime == \E m \in MinuteSet :
            Step(setAutoSaveTime(Engine, m), Call("setAutoSaveTime", m, 0, NoTag))

\* millis() advances
Tick == \E d \in TickSet :
            Step([Engine EXCEPT !.now = Clock32(@ + d), !.log = log, !.lastOut = lastOut],
                 Call("tick", d, 0, NoTag))

\* Power is lost and the program starts again: RAM is as constructed, the
\* seed store keeps what it held.
Restart == Step(Constructed(platform, store), Call("restart", 0, 0, NoTag))

Next == \/ Begin \/ Stir \/ Rand \/ Save \/ Loop \/ Destroy
        \/ AddNoiseSource \/ SetAutoSaveTime \/ Tick \/ Restart \/ Available

Spec == Init /\ [][Next]_vars

\* ---------------------------------------------------- long rand() requests
\* rand() on a ready engine, for lengths up to and beyond 2^16.  The initial
\* states are the ones begin() and one stir() of 48 bytes leave behind, for
\* each credit level.
MaxRandSteps == 1
CreditLevels == {0, 7, 8, 64, 383, 384}
LongLens == {0, 1, 8, 48, 49, 64, 1024, 1025, 1088, 2048, 2112, 65535, 65536, 65537,
             65584}

Begun(p) == [begin(Constructed(p, Erased), NoTag) EXCEPT !.log = <<>>]

InitRand ==
    \E p \in Platforms, c \in CreditLevels :
        LET s == stir(Begun(p), "user", 48, c)
        IN  /\ platform = s.platform       /\ block = s.block
            /\ stream = s.stream           /\ credits = s.credits
            /\ firstSave = s.firstSave     /\ initialized = s.initialized
            /\ trngPending = s.trngPending /\ timer = s.timer
            /\ timeout = s.timeout         /\ count = s.count
            /\ trngPosn = s.trngPosn       /\ hash = s.hash
            /\ outBits = s.outBits         /\ store = s.store
            /\ now = s.now                 /\ log = s.log
            /\ lastOut = s.lastOut         /\ noiseSources = s.noiseSources
            /\ lastCall = Call("stir", 48, c, NoTag)
            /\ prevCall = Call("begin", 0, 0, NoTag)
            /\ prev = Begun(p)
            /\ steps = 0
            /\ wdt = WdtIdle

RandLong ==
    \E len \in LongLens :
        /\ FitsSize(platform, len)
        /\ steps < MaxRandSteps
        /\ Install(rand(Engine, len))
        /\ lastCall' = Call("rand", len, 0, NoTag)
        /\ prevCall' = lastCall
        /\ prev' = Engine
        /\ steps' = steps + 1

SpecRand == InitRand /\ [][RandLong]_vars

\* ------------------------------------------------------ available() queries
\* available() and rand() on a ready engine, for every credit value: the
\* initial states are the ones begin() and one stir() of 48 bytes with
\* credit c leave behind.  MaxAvailSteps bounds the rand() calls; a query
\* changes nothing, so one query in a row is enough.
MaxAvailSteps == 1
AllCredits == 0..RNG_MAX_CREDITS
QueryLens == {0, 1, 8, 47, 48, 49, 64, 65535, 65536, 65584}
DrainLens == {0, 1, 8, 47, 48}

InitAvail ==
    \E p \in Platforms, c \in AllCredits :
        LET s == stir(Begun(p), "user", 48, c)
        IN  /\ platform = s.platform       /\ block = s.block
            /\ stream = s.stream           /\ credits = s.credits
            /\ firstSave = s.firstSave     /\ initialized = s.initialized
            /\ trngPending = s.trngPending /\ timer = s.timer
            /\ timeout = s.timeout         /\ count = s.count
            /\ trngPosn = s.trngPosn       /\ hash = s.hash
            /\ outBits = s.outBits         /\ store = s.store
            /\ now = s.now                 /\ log = s.log
            /\ lastOut = s.lastOut         /\ noiseSources = s.noiseSources
            /\ lastCall = Call("stir", 48, c, NoTag)
            /\ prevCall = Call("begin", 0, 0, NoTag)
            /\ prev = Begun(p)
            /\ steps = 0
            /\ wdt = WdtIdle

Query ==
    \E len \in QueryLens :
        /\ FitsSize(platform, len)
        /\ lastCall.op # "available"
        /\ Install(availableCall(Engine, len))
        /\ lastCall' = Call("available", len, 0, NoTag)
        /\ prevCall' = lastCall
        /\ prev' = Engine
        /\ steps' = steps

Drain ==
    \E len \in DrainLens :
        /\ steps < MaxAvailSteps
        /\ Install(rand(Engine, len))
        /\ lastCall' = Call("rand", len, 0, NoTag)
        /\ prevCall' = lastCall
        /\ prev' = Engine
        /\ steps' = steps + 1

NextAvail == Query \/ Drain

SpecAvail == InitAvail /\ [][NextAvail]_vars

\* ------------------------------------------------- noise source registry
\* addNoiseSource() and loop() on a fresh engine, for enough calls to fill
\* the registry and go beyond it.
MaxNoiseSteps == 6

NoiseAdd ==
    \E source \in SourceChoices(Engine) :
        /\ steps < MaxNoiseSteps
        /\ Install(addNoiseSource(Engine, source))
        /\ lastCall' = Call("addNoiseSource", source, 0, NoTag)
        /\ prevCall' = lastCall
        /\ prev' = Engine
        /\ steps' = steps + 1

NoisePoll ==
    \E noise \in NoiseInputs :
        /\ steps < MaxNoiseSteps
        /\ (count = 0 => noise = NoNoise)
        /\ Install(loop(Engine, noise))
        /\ lastCall' = Call("loop", noise[1], noise[2], NoTag)
        /\ prevCall' = lastCall
        /\ prev' = Engine
        /\ steps' = steps + 1

NextNoise == NoiseAdd \/ NoisePoll

SpecNoise == Init /\ [][NextNoise]_vars

\* ------------------------------------------------------- auto-save timer
\* An engine that ran begin() at start-up and save() when millis() was t0,
\* for t0 at the start of the clock's range and just before its end, then
\* clock ticks, loop passes, saves, stirs and changes of the interval.
StartTimes == {0, CLOCK_MODULUS - (TIMEOUT_MS \div MS_UNIT),
               CLOCK_MODULUS - (MINUTE_MS \div MS_UNIT), CLOCK_MODULUS - 1}

InitTimer ==
    \E p \in Platforms, t0 \in StartTimes :
        LET s == save([Begun(p) EXCEPT !.now = t0])
        IN  /\ platform = s.platform       /\ block = s.block
            /\ stream = s.stream           /\ credits = s.credits
            /\ firstSave = s.firstSave     /\ initialized = s.initialized
            /\ trngPending = s.trngPending /\ timer = s.timer
            /\ timeout = s.timeout         /\ count = s.count
            /\ trngPosn = s.trngPosn       /\ hash = s.hash
            /\ outBits = s.outBits         /\ store = s.store
            /\ now = s.now                 /\ log = s.log
            /\ lastOut = s.lastOut         /\ noiseSources = s.noiseSources
            /\ lastCall = Call("save", 0, 0, NoTag)
            /\ prevCall = Call("begin", 0, 0, NoTag)
            /\ prev = [Begun(p) EXCEPT !.now = t0]
            /\ steps = 0
            /\ wdt = WdtIdle

NextTimer == Tick \/ Loop \/ Save \/ Stir \/ SetAutoSaveTime

SpecTimer == InitTimer /\ [][NextTimer]_vars

\* ------------------------------------------------- hardware words in loop
\* loop() and one-byte rand() requests on a fresh engine, for enough calls
\* to take the rotating offset through all twelve words and around.
MaxTrngSteps == 13

TrngLoop ==
    /\ steps < MaxTrngSteps
    /\ Install(loop(Engine, NoNoise))
    /\ lastCall' = Call("loop", 0, 0, NoTag)
    /\ prevCall' = lastCall
    /\ prev' = Engine
    /\ steps' = steps + 1

TrngRand ==
    /\ steps < MaxTrngSteps
    /\ Install(rand(Engine, 1))
    /\ lastCall' = Call("rand", 1, 0, NoTag)
    /\ prevCall' = lastCall
    /\ prev' = Engine
    /\ steps' = steps + 1

NextTrng == TrngLoop \/ TrngRand

SpecTrng == Init /\ [][NextTrng]_vars

\* ------------------------------------------- watchdog jitter accumulator
\* The watchdog sections of loop() and mixTRNG() (RNG_WATCHDOG) taken one
\* statement at a time, with the interrupt handler free to run whenever
\* interrupts are enabled.  hash is modelled by the number of samples mixed
\* into it since it was last zeroed; wdt.fed counts the samples the handler
\* has added and wdt.got those in the words the foreground has used.
MaxSamples == 34
MaxIsrCalls == 2

\* a critical section that leaves interrupts enabled
cliSkipped(w) == w

\* cli()
cli(w) == [w EXCEPT !.ints = 0]

\* sei()
sei(w) == [w EXCEPT !.ints = 1]

\* The engine in the middle of a call: the log so far is kept
Cur == [Engine EXCEPT !.log = log]

InitIsr ==
    LET s == begin(Constructed("AVR", Erased), NoTag)
    IN  /\ platform = s.platform       /\ block = s.block
        /\ stream = s.stream           /\ credits = s.credits
        /\ firstSave = s.firstSave     /\ initialized = s.initialized
        /\ trngPending = s.trngPending /\ timer = s.timer
        /\ timeout = s.timeout         /\ count = s.count
        /\ trngPosn = s.trngPosn       /\ hash = s.hash
        /\ outBits = s.outBits         /\ store = s.store
        /\ now = s.now                 /\ log = s.log
        /\ lastOut = s.lastOut         /\ noiseSources = s.noiseSources
        /\ lastCall = Call("begin", 0, 0, NoTag)
        /\ prevCall = NoCall
        /\ prev = Constructed("AVR", Erased)
        /\ steps = 0
        /\ wdt = WdtIdle

\* The interrupt handler: appends one sample to the accumulator.  It runs
\* only while interrupts are enabled.
WdtHandler ==
    /\ platform = "AVR"
    /\ wdt.ints = 1
    /\ wdt.fed < MaxSamples
    /\ InstallEngine([Cur EXCEPT !.hash = @ + 1, !.outBits = (@ + 1) % 2^8])
    /\ wdt' = [wdt EXCEPT !.fed = @ + 1]
    /\ UNCHANGED <<lastCall, prevCall, prev, steps>>

\* loop() down to cli()
IsrLoop ==
    /\ wdt.pc = "idle"
    /\ steps < MaxIsrCalls
    /\ InstallEngine(pollSources(Events(Engine, <<Ev("loop", 0)>>), 0, NoNoise))
    /\ wdt' = [cli(wdt) EXCEPT !.pc = "test", !.fn = "loop", !.len = 0]
    /\ lastCall' = Call("loop", NoNoise[1], NoNoise[2], NoTag)
    /\ prevCall' = lastCall
    /\ prev' = Engine
    /\ steps' = steps + 1

\* rand(data, 1) down to cli() in mixTRNG(), or all of it when trngPending
\* sends it to stir(0, 0, 0) instead
IsrRand ==
    /\ wdt.pc = "idle"
    /\ steps < MaxIsrCalls
    /\ LET s2 == randStart(Engine, 1)
       IN  IF s2.trngPending = 1
           THEN /\ InstallEngine(rand(Engine, 1))
                /\ wdt' = wdt
           ELSE /\ InstallEngine(Events(s2, <<Ev("mixTRNG", 0)>>))
                /\ wdt' = [cli(wdt) EXCEPT !.pc = "test", !.fn = "rand", !.len = 1]
    /\ lastCall' = Call("rand", 1, 0, NoTag)
    /\ prevCall' = lastCall
    /\ prev' = Engine
    /\ steps' = steps + 1

\* if (outBits >= 32)
IsrTest ==
    /\ wdt.pc = "test"
    /\ InstallEngine(Cur)
    /\ wdt' = [wdt EXCEPT !.pc = IF outBits >= 32 THEN "read" ELSE "notready"]
    /\ UNCHANGED <<lastCall, prevCall, prev, steps>>

\* uint32_t value = hash;
IsrRead ==
    /\ wdt.pc = "read"
    /\ InstallEngine(Cur)
    /\ wdt' = [wdt EXCEPT !.pc = "clearHash", !.value = hash]
    /\ UNCHANGED <<lastCall, prevCall, prev, steps>>

\* hash = 0;
IsrClearHash ==
    /\ wdt.pc = "clearHash"
    /\ InstallEngine([Cur EXCEPT !.hash = 0])
    /\ wdt' = [wdt EXCEPT !.pc = "clearBits"]
    /\ UNCHANGED <<lastCall, prevCall, prev, steps>>

\* outBits = 0;
IsrClearBits ==
    /\ wdt.pc = "clearBits"
    /\ InstallEngine([Cur EXCEPT !.outBits = 0])
    /\ wdt' = [wdt EXCEPT !.pc = "ready"]
    /\ UNCHANGED <<lastCall, prevCall, prev, steps>>

\* sei(), on the path that took a word and on the one that did not
IsrSei ==
    /\ wdt.pc \in {"ready", "notready"}
    /\ InstallEngine(Cur)
    /\ wdt' = [sei(wdt) EXCEPT !.pc = IF wdt.pc = "ready" THEN "use" ELSE "skip"]
    /\ UNCHANGED <<lastCall, prevCall, prev, steps>>

\* The rest of the call: the word, if one was taken, goes into the block,
\* then loop() looks at the auto-save timer and rand() generates.
IsrReturn ==
    /\ wdt.pc \in {"use", "skip"}
    /\ LET w == IF wdt.pc = "skip" THEN Cur
                ELSE IF wdt.fn = "loop" THEN loopWord(Cur)
                ELSE [Cur EXCEPT !.block = XorInto(@, <<"jitter", 0>>),
                                 !.log = Append(@, Ev("xor", 4))]
       IN  InstallEngine(IF wdt.fn = "loop" THEN loopEnd(w) ELSE randEnd(w, wdt.len))
    /\ wdt' = [wdt EXCEPT !.pc = "idle", !.fn = "none", !.len = 0, !.value = 0,
                          !.got = @ + (IF wdt.pc = "use" THEN wdt.value ELSE 0)]
    /\ UNCHANGED <<lastCall, prevCall, prev, steps>>

NextIsr == \/ WdtHandler \/ IsrLoop \/ IsrRand \/ IsrTest \/ IsrRead
           \/ IsrClearHash \/ IsrClearBits \/ IsrSei \/ IsrReturn

SpecIsr == InitIsr /\ [][NextIsr]_vars

\* ------------------------------------------------ first save at full credit
\* begin(), stir(), rand() and destroy() on a fresh engine, for enough calls
\* to fill the credits, drain them and fill them again.
MaxSatSteps == 5
SatStirInputs == {<<48, 384>>, <<48, 383>>, <<1, 100>>}
SatRandLens == {1, 48}

SatStep(s, call) ==
    /\ steps < MaxSatSteps
    /\ Install(s)
    /\ lastCall' = call
    /\ prevCall' = lastCall
    /\ prev' = Engine
    /\ steps' = steps + 1

SatBegin == SatStep(begin(Engine, NoTag), Call("begin", 0, 0, NoTag))

SatStir == \E in \in SatStirInputs :
               SatStep(stir(Engine, "user", in[1], in[2]), Call("stir", in[1], in[2], NoTag))

SatRand == \E len \in SatRandLens :
               SatStep(rand(Engine, len), Call("rand", len, 0, NoTag))

SatDestroy == SatStep(destroy(Engine), Call("destroy", 0, 0, NoTag))

NextSat == SatBegin \/ SatStir \/ SatRand \/ SatDestroy

SpecSat == Init /\ [][NextSat]_vars

\* ------------------------------------------------- seeds across restarts
\* The seed store damaged behind the engine's back: bytes of the EEPROM seed
\* change under a checksum that stays, the NVS blob comes back with another
\* length.
Corrupted(p, st) ==
    IF p = "AVR" THEN <<"seed", <<"flipped", st[2][2]>>, st[3]>>
    ELSE <<"seed", st[2], SEED_SIZE - 1>>

\* Engines to start from: a fresh device, a device that has run begin(), and
\* one that then took in noise.
SeedStarts(p) == {Constructed(p, Erased), Begun(p), stir(Begun(p), "user", 32, 64)}

InitSeed ==
    \E p \in Platforms : \E s \in SeedStarts(p) :
        /\ platform = s.platform       /\ block = s.block
        /\ stream = s.stream           /\ credits = s.credits
        /\ firstSave = s.firstSave     /\ initialized = s.initialized
        /\ trngPending = s.trngPending /\ timer = s.timer
        /\ timeout = s.timeout         /\ count = s.count
        /\ trngPosn = s.trngPosn       /\ hash = s.hash
        /\ outBits = s.outBits         /\ store = s.store
        /\ now = s.now                 /\ log = <<>>
        /\ lastOut = s.lastOut         /\ noiseSources = s.noiseSources
        /\ lastCall = NoCall
        /\ prevCall = NoCall
        /\ prev = Constructed(p, Erased)
        /\ steps = 0
        /\ wdt = WdtIdle

Corrupt ==
    /\ store # Erased
    /\ store[2][1] = "hash"
    /\ Step([Engine EXCEPT !.store = Corrupted(platform, store),
                           !.log = log, !.lastOut = lastOut],
            Call("corrupt", 0, 0, NoTag))

NextSeed == Begin \/ Save \/ Restart \/ Corrupt \/ Destroy

SpecSeed == InitSeed /\ [][NextSeed]_vars

\* ------------------------------------------------------------------ claims
\* Positions in the log of the most recent API call at which `name` happened
Idx(name) == {k \in DOMAIN log : log[k][1] = name}

\* C1: in every reachable state the entropy credit counter is within
\* 0 .. RNG_MAX_CREDITS (384), whatever calls were made with whatever len
\* and credit arguments.
C1_CreditBounds == credits \in 0..RNG_MAX_CREDITS

\* A stir() claiming more credit than the pool can hold has left it full.
C1_Witness ==
    /\ lastCall.op = "stir"
    /\ lastCall.credit > RNG_MAX_CREDITS
    /\ credits = RNG_MAX_CREDITS

\* C2: a begin() that runs past its guard calls save() exactly once, after
\* the persisted seed was loaded and before the engine is marked ready, and
\* no output block is produced between the load and the overwrite of the
\* seed in the seed store.
C2_BeginResaves ==
    \A b \in Idx("begin") :
        \E l \in Idx("load"), r \in Idx("ready") :
            /\ b < l /\ l < r
            /\ Cardinality({k \in Idx("save") : b < k /\ k < r}) = 1
            /\ \A k \in Idx("save") : (b < k /\ k < r) =>
                   /\ l < k
                   /\ \E w \in Idx("store") :
                          /\ k < w /\ w < r
                          /\ \A o \in Idx("out") : ~(l < o /\ o < w)
            /\ \A o \in Idx("out") : r < o

\* rand() ran begin() itself, begin() XORed in a stored seed, and rand()
\* produced output afterwards.
C2_Witness ==
    /\ lastCall.op = "rand"
    /\ Idx("xorseed") # {}
    /\ Idx("out") # {}
    /\ initialized = 1

\* C3: every byte given to a rand() caller or written to the seed store is
\* copied from stream right after a hashCore call; what is delivered is a
\* hashCore output, never the block itself; and the block that was hashed
\* to produce it has been replaced by a rekey when the operation returns.
C3_OnlyKeystreamLeaves ==
    /\ \A k \in Idx("out") \cup Idx("store") :
           /\ k > 1 /\ log[k - 1][1] = "perm"
           /\ \E j \in Idx("rekey") : j > k
    /\ lastOut # NoOut => (lastOut[1] = "hash" /\ lastOut[2] # block)
    /\ store # Erased => (store[2][1] = "hash" /\ store[2][2] # block)

\* A rand() of more than one block, on an engine whose seed store holds a seed.
C3_Witness ==
    /\ lastCall.op = "rand"
    /\ lastCall.len > 64
    /\ lastOut # NoOut
    /\ store # Erased

IsOut(e) == e[1] = "out"
\* The "out" events of the most recent call: one per memcpy to the caller
Outs == SelectSeq(log, IsOut)

\* C4: rand(buf, len) writes exactly len bytes, as ceil(len / 64) keystream
\* blocks of which only the last is cut short, at every credit level
\* (credits = 0 included).
C4_RandDeliversLen ==
    lastCall.op = "rand" =>
        LET outs == Outs
            n    == Len(outs)
        IN  /\ n = (lastCall.len + 63) \div 64
            /\ \A i \in 1..n :
                   outs[i][2] = IF i < n THEN 64 ELSE lastCall.len - 64 * (n - 1)

\* A request of 33 blocks served with no credit in the pool.
C4_Witness ==
    /\ lastCall.op = "rand"
    /\ lastCall.len = 2112
    /\ prev.credits = 0
    /\ Len(Outs) = 33

\* C5 (as claimed): on a ready engine rand(buf, len) leaves
\* credits = max(0, credits before - 8 * len), for every len a size_t holds.
C5_RandCreditDecrement ==
    (lastCall.op = "rand" /\ prev.initialized = 1) =>
        credits = IF prev.credits - 8 * lastCall.len > 0
                  THEN prev.credits - 8 * lastCall.len ELSE 0

\* C6 (as claimed): for every len >= 0 and credit > 8 * len,
\* stir(data, len, credit) leaves the engine as stir(data, len, 8 * len)
\* does, and raises credits by no more than 8 * len.
C6_StirCreditClamp ==
    (lastCall.op = "stir" /\ lastCall.credit > 8 * lastCall.len) =>
        LET t == stir(prev, "user", lastCall.len, 8 * lastCall.len)
        IN  /\ credits = t.credits          /\ block = t.block
            /\ stream = t.stream            /\ firstSave = t.firstSave
            /\ store = t.store              /\ timer = t.timer
            /\ log = t.log
            /\ credits - prev.credits <= 8 * lastCall.len

\* C7 (as claimed): on an engine that is not ready, rand and stir both run
\* begin first, so the engine is ready when either returns.
C7_RandAndStirBegin ==
    (lastCall.op \in {"rand", "stir"} /\ prev.initialized = 0) =>
        /\ initialized = 1
        /\ Idx("begin") # {}

\* C7 (amended): on an engine that is not ready, rand runs begin with no tag
\* before anything else and the engine is ready when it returns; stir does
\* not run begin: it mixes its data into the block as it is and the engine
\* is still not ready when it returns.
C7_OnlyRandBegins ==
    /\ (lastCall.op = "rand" /\ prev.initialized = 0) =>
           /\ initialized = 1
           /\ log[2] = Ev("begin", 0)
           /\ \A r \in Idx("ready") : \A k \in Idx("generate") \cup Idx("out") : r < k
    /\ (lastCall.op = "stir" /\ prev.initialized = 0) =>
           /\ initialized = 0
           /\ Idx("begin") = {}

\* rand on an engine that a stir had credited while it was not ready
C7_Witness ==
    /\ lastCall.op = "rand"
    /\ prev.initialized = 0
    /\ prev.credits > 0
    /\ prevCall.op = "stir"
    /\ initialized = 1

\* C8: begin on a ready engine changes nothing, whatever the tag: block,
\* stream, credits, firstSave, timer and the seed store are as before and
\* no step (no save, no rekey) was performed.
C8_BeginIdempotent ==
    (lastCall.op = "begin" /\ prev.initialized = 1) =>
        /\ block = prev.block           /\ stream = prev.stream
        /\ credits = prev.credits       /\ firstSave = prev.firstSave
        /\ timer = prev.timer           /\ timeout = prev.timeout
        /\ store = prev.store           /\ initialized = 1
        /\ trngPending = prev.trngPending /\ trngPosn = prev.trngPosn
        /\ log = <<>>

\* begin("v1") on a ready engine that holds credit
C8_Witness ==
    /\ lastCall.op = "begin"
    /\ lastCall.tag # NoTag
    /\ prev.initialized = 1
    /\ prev.credits > 0

\* C9: after destroy the whole block and the whole stream are zero, the
\* persisted seed is erased and the engine is not ready; a rand on an
\* engine that is not ready runs begin to completion before it generates
\* any output.
C9_DestroyWipes ==
    /\ lastCall.op = "destroy" =>
           /\ block = ZeroBlock /\ stream = ZeroStream
           /\ store = Erased    /\ initialized = 0
    /\ (lastCall.op = "rand" /\ prev.initialized = 0) =>
           /\ Idx("ready") # {}
           /\ \A r \in Idx("ready") : \A k \in Idx("out") \cup Idx("generate") : r < k

\* destroy on a ready engine whose seed store held a seed
C9_Witness ==
    /\ lastCall.op = "destroy"
    /\ prev.initialized = 1
    /\ prev.store # Erased
    /\ store = Erased

\* C10: two save calls in a row store different seeds: the second hashes a
\* block different from the one the first hashed.
C10_SavesDiffer ==
    (lastCall.op = "save" /\ prevCall.op = "save") =>
        /\ store # Erased /\ prev.store # Erased
        /\ store # prev.store
        /\ store[2][2] # prev.store[2][2]

\* save, save on a ready engine
C10_Witness ==
    /\ lastCall.op = "save"
    /\ prevCall.op = "save"
    /\ initialized = 1

\* The store holds what the store step of save() writes for some keystream
SavedSeed(p, st) ==
    /\ st # Erased
    /\ st = writeSeed([Constructed(p, Erased) EXCEPT !.stream = st[2]]).store

\* Words 4..15 of a block
Mutable(b) == <<b.base, b.ctr, b.x>>

\* The block a save() hashed into the stored seed st had its counter
\* incremented just before: the block the engine held before that save.
PreSaveBlock(st) == [st[2][2] EXCEPT !.ctr = @ - 1]

FirstOf(S) == CHOOSE k \in S : \A j \in S : k <= j

\* C11: a seed stored by save is accepted by the load step of the next begin
\* after a restart (the recomputed integrity tag equals the stored one), it
\* is XORed onto the baseline, and the mutable region begin builds from it
\* differs from the one the engine held just before that save.
C11_SeedRoundTrip ==
    (lastCall.op = "begin" /\ prevCall.op = "restart"
                           /\ SavedSeed(platform, prev.store)) =>
        LET loaded == loadSeed([prev EXCEPT !.block = InitBlock])
        IN  /\ seedValid(platform, prev.store)
            /\ SubSeq(log, 1, 4) = <<Ev("begin", 0), Ev("init", 0),
                                     Ev("load", SEED_SIZE), Ev("xorseed", 48)>>
            /\ loaded.block = XorInto(InitBlock, <<"seed", prev.store>>)
            /\ Mutable(loaded.block) # Mutable(PreSaveBlock(prev.store))

\* begin after a restart, on a seed that a ready engine had saved
C11_Witness ==
    /\ lastCall.op = "begin"
    /\ prevCall.op = "restart"
    /\ SavedSeed(platform, prev.store)
    /\ PreSaveBlock(prev.store).pre = "tag"
    /\ Idx("xorseed") # {}
    /\ initialized = 1

\* C12 (as claimed): with the stored seed absent or its tag not matching,
\* begin XORs nothing into the mutable region before the first rekey (the
\* region is the fixed baseline then), saves a fresh seed and marks the
\* engine ready.
C12_BaselineFallback ==
    (lastCall.op = "begin" /\ prev.initialized = 0
                           /\ ~SavedSeed(platform, prev.store)) =>
        /\ Idx("xorseed") = {}
        /\ \A k \in Idx("xor") \cup Idx("xorword") : k > FirstOf(Idx("rekey"))
        /\ SavedSeed(platform, store)
        /\ Idx("store") # {}
        /\ initialized = 1

\* C12 (amended): with the stored seed absent or its tag not matching, begin
\* XORs no seed into the mutable region.  On a build without a word TRNG the
\* region is the fixed baseline when the first rekey runs; on a build with
\* one, mixTRNG has XORed twelve TRNG words onto the baseline by then.
\* begin still completes: a fresh seed is saved and the engine is ready.
C12_BaselineOrTRNG ==
    (lastCall.op = "begin" /\ prev.initialized = 0
                           /\ ~SavedSeed(platform, prev.store)) =>
        LET r == FirstOf(Idx("rekey"))
            early == {k \in Idx("xor") \cup Idx("xorword") : k < r}
        IN  /\ ~seedValid(platform, prev.store)
            /\ Idx("xorseed") = {}
            /\ (platform = "AVR" => early = {})
            /\ (platform = "ESP32" =>
                    /\ Cardinality(early) = 1
                    /\ \A k \in early : log[k] = Ev("xor", 48) /\ log[k-1] = Ev("mixTRNG", 0))
            /\ SavedSeed(platform, store)
            /\ \E w \in Idx("store") : \E d \in Idx("ready") : w < d
            /\ initialized = 1

\* begin after a restart, on a seed that was damaged while the power was off
C12_Witness ==
    /\ lastCall.op = "begin"
    /\ prevCall.op = "restart"
    /\ prev.store # Erased
    /\ ~SavedSeed(platform, prev.store)
    /\ initialized = 1
    /\ SavedSeed(platform, store)

\* The value the most recent call returned
Ret == log[Len(log)][2]

MinOf(a, b) == IF a < b THEN a ELSE b

\* What a call may not touch if it is to change no engine state
SameEngine ==
    /\ block = prev.block           /\ stream = prev.stream
    /\ credits = prev.credits       /\ firstSave = prev.firstSave
    /\ initialized = prev.initialized /\ trngPending = prev.trngPending
    /\ timer = prev.timer           /\ timeout = prev.timeout
    /\ count = prev.count           /\ trngPosn = prev.trngPosn
    /\ store = prev.store           /\ noiseSources = prev.noiseSources

\* C13: available(len) returns true exactly when
\* credits >= min(8 * len, 384), for every len and every credit value in
\* 0..384, and the call changes no engine state.
C13_AvailableThreshold ==
    lastCall.op = "available" =>
        /\ log[Len(log)][1] = "return"
        /\ (Ret = 1) = (prev.credits >= MinOf(8 * lastCall.len, RNG_MAX_CREDITS))
        /\ Ret \in {0, 1}
        /\ SameEngine

\* available(64) answered with true on a saturated pool
C13_Witness ==
    /\ lastCall.op = "available"
    /\ lastCall.len = 64
    /\ credits = RNG_MAX_CREDITS
    /\ Ret = 1

\* C14 (as claimed): for every len, available(len) is false right after a
\* rand(buf, len) called with credits = 8 * len, and available(len) is true
\* when the stir before it credited at least 8 * len bits.
C14_AvailabilityMonotone ==
    /\ []((lastCall.op = "rand" /\ prev.credits = 8 * lastCall.len)
             => ~available(credits, lastCall.len))
    /\ [][(lastCall.op = "rand" /\ prev.credits = 8 * lastCall.len
              /\ lastCall'.op = "available" /\ lastCall'.len = lastCall.len)
             => Ret' = 0]_vars
    /\ [][(lastCall.op = "stir" /\ lastCall'.op = "available"
              /\ stirCredit(platform, lastCall.len, lastCall.credit) >= 8 * lastCall'.len)
             => Ret' = 1]_vars

\* C14 (amended): for every len >= 1, available(len) is false right after a
\* rand(buf, len) called with credits = 8 * len (available(0) is true at
\* every credit level); for every len, available(len) is true when the stir
\* before it credited at least 8 * len bits.
C14_AvailabilityMonotoneFrom1 ==
    /\ []((lastCall.op = "rand" /\ prev.credits = 8 * lastCall.len)
             => (available(credits, lastCall.len) = (lastCall.len = 0)))
    /\ [][(lastCall.op = "rand" /\ prev.credits = 8 * lastCall.len
              /\ lastCall'.op = "available" /\ lastCall'.len = lastCall.len)
             => Ret' = (IF lastCall.len = 0 THEN 1 ELSE 0)]_vars
    /\ [][(lastCall.op = "stir" /\ lastCall'.op = "available"
              /\ stirCredit(platform, lastCall.len, lastCall.credit) >= 8 * lastCall'.len)
             => Ret' = 1]_vars

\* rand(buf, 47) has drained a pool of exactly 376 bits
C14_Witness ==
    /\ lastCall.op = "rand"
    /\ lastCall.len = 47
    /\ prev.credits = 8 * lastCall.len
    /\ credits = 0
    /\ ~available(credits, lastCall.len)

\* C15: after begin completes, with or without a valid persisted seed and
\* whatever credit was held before, credits = 0, so available(len) is false
\* for every len >= 1; a following stir of 32 bytes with credit 64 raises
\* credits to exactly 64, so that available(8) is true and available(48)
\* is false.
C15_CreditsAfterBegin ==
    /\ []((lastCall.op = "begin" /\ prev.initialized = 0) =>
             /\ credits = 0
             /\ \A len \in {1, 8, 47, 48, 64, 65535} : ~available(credits, len))
    /\ [][(lastCall.op = "begin" /\ prev.initialized = 0
              /\ lastCall'.op = "available" /\ lastCall'.len >= 1)
             => Ret' = 0]_vars
    /\ []((lastCall.op = "stir" /\ lastCall.len = 32 /\ lastCall.credit = 64
              /\ prevCall.op = "begin" /\ prev.initialized = 1 /\ prev.credits = 0) =>
             /\ credits = 64
             /\ available(credits, 8)
             /\ ~available(credits, 48))
    /\ [][(lastCall.op = "stir" /\ lastCall.len = 32 /\ lastCall.credit = 64
              /\ prevCall.op = "begin" /\ prev.initialized = 1 /\ prev.credits = 0
              /\ lastCall'.op = "available" /\ lastCall'.len \in {8, 48})
             => Ret' = (IF lastCall'.len = 8 THEN 1 ELSE 0)]_vars

\* begin on an engine that a stir had credited while it was not ready
C15_Witness ==
    /\ lastCall.op = "begin"
    /\ prev.initialized = 0
    /\ prev.credits > 0
    /\ credits = 0
    /\ initialized = 1

\* begin, stir(noise, 32, 64), available(8)
C15_WitnessQuery ==
    /\ lastCall.op = "available" /\ lastCall.len = 8
    /\ prevCall.op = "stir" /\ prevCall.len = 32 /\ prevCall.credit = 64
    /\ credits = 64 /\ initialized = 1
    /\ Ret = 1

IsSource(e) == e[1] = "source"
\* The sources whose stir() the most recent call ran, in order
Polled == SelectSeq(log, IsSource)

\* C16: never more than 4 noise sources are registered: addNoiseSource with
\* 4 registered changes nothing and does not call the source's added(); each
\* loop pass calls stir() once per registration, in registration order, and
\* on no other source.
C16_RegistryCapacity ==
    /\ count <= MAX_NOISE_SOURCES
    /\ count = Len(noiseSources)
    /\ (lastCall.op = "addNoiseSource" /\ prev.count >= MAX_NOISE_SOURCES) =>
           /\ SameEngine
           /\ Idx("added") = {}
    /\ (lastCall.op = "addNoiseSource" /\ prev.count < MAX_NOISE_SOURCES) =>
           /\ noiseSources = Append(prev.noiseSources, lastCall.len)
           /\ log[Len(log)] = Ev("added", lastCall.len)
    /\ lastCall.op = "loop" =>
           /\ Len(Polled) = Len(prev.noiseSources)
           /\ \A i \in 1..Len(Polled) : Polled[i][2] = prev.noiseSources[i]
           /\ noiseSources = prev.noiseSources

\* four sources registered, a fifth turned away, then a loop pass
C16_Witness ==
    /\ lastCall.op = "loop"
    /\ prevCall.op = "addNoiseSource"
    /\ prevCall.len = MAX_NOISE_SOURCES + 1
    /\ noiseSources = <<1, 2, 3, 4>>
    /\ Len(Polled) = MAX_NOISE_SOURCES

\* C17 (as claimed): the first time after begin that credits reach 384,
\* whichever operation raised them there (a stir call or the hardware
\* credit added by loop), a save is performed before that operation returns.
C17_FirstSaveAtMaxCredits ==
    (lastCall.op \in {"stir", "loop"} /\ prev.initialized = 1 /\ prev.firstSave = 1
        /\ prev.credits < RNG_MAX_CREDITS /\ credits >= RNG_MAX_CREDITS) =>
        /\ Idx("save") # {}
        /\ Idx("store") # {}
        /\ firstSave = 0

\* C18: if trngPending is set when rand is called, rand performs a
\* zero-length stir (a rekey) before it generates the first output block,
\* with no hardware word XORed in between, and trngPending is clear
\* whenever rand returns.
C18_PendingStirredBeforeOutput ==
    lastCall.op = "rand" =>
        /\ trngPending = 0
        /\ prev.trngPending = 1 =>
               /\ trngPosn = 0
               /\ \E st \in Idx("stir"), r \in Idx("rekey"), g \in Idx("generate") :
                      /\ log[st] = Ev("stir", 0)
                      /\ st < r /\ r < g
                      /\ \A d \in Idx("ready") : d < st
                      /\ \A k \in Idx("xor") \cup Idx("xorword") \cup Idx("mixTRNG")
                                \cup Idx("xorseed") : ~(st < k /\ k < g)
                      /\ \A o \in Idx("out") : g < o

\* rand after a loop pass that XORed a TRNG word into the block
C18_Witness ==
    /\ lastCall.op = "rand"
    /\ lastCall.len > 0
    /\ prevCall.op = "loop"
    /\ prev.trngPending = 1
    /\ prev.initialized = 1
    /\ Len(Outs) > 0
    /\ trngPending = 0

\* Where the generation loop of the most recent rand call starts in the log
LoopStart == FirstOf(Idx("generate"))

\* The rekeys of the most recent rand call from its generation loop on
\* (the loop's own and the one that ends the call)
LoopRekeys == LET g == LoopStart IN {r \in (g + 1)..Len(log) : log[r][1] = "rekey"}

\* Index of the j-th output block in the log of a rand call whose loop
\* starts at g and that rekeys
\* before every block numbered 16 * i + 1, i >= 1: a block is three entries
\* (inc, perm, out), a rekey five.
OutAt(g, j) == g + 3 * j + 5 * ((j - 1) \div RNG_REKEY_BLOCKS)

\* C19: in one rand request at most 16 output blocks are generated between
\* two rekeys: a rekey is performed right before the 17th, 33rd, ... block
\* and nowhere else in the loop, so a request of n >= 1 blocks performs
\* exactly floor((n - 1) / 16) rekeys inside the loop.
C19_RekeyEvery16Blocks ==
    lastCall.op = "rand" =>
        LET n  == Len(Outs)
            g  == LoopStart
            rk == LoopRekeys
        IN  n >= 1 =>
               /\ \A j \in 1..n :
                      /\ log[OutAt(g, j)][1] = "out"
                      /\ (j > 1 /\ (j - 1) % RNG_REKEY_BLOCKS = 0) =>
                             log[OutAt(g, j) - 7] = Ev("rekey", 0)
               /\ Cardinality({r \in rk : r < OutAt(g, n)})
                      = (n - 1) \div RNG_REKEY_BLOCKS
               /\ Cardinality(rk) = ((n - 1) \div RNG_REKEY_BLOCKS) + 1

\* a request of 33 blocks: a rekey before the 17th and before the 33rd
C19_Witness ==
    /\ lastCall.op = "rand"
    /\ lastCall.len = 2112
    /\ Len(Outs) = 33
    /\ Cardinality(LoopRekeys) = 3

\* C20: every rand call (rand(buf, 0), requests of a multiple of 64 bytes and
\* requests made with no credit included) performs exactly one rekey after
\* its last output block: its last permutation call is that of a rekey, and
\* the block it leaves behind is the one rekey builds from that permutation.
C20_FinalRekey ==
    lastCall.op = "rand" =>
        LET L    == Len(log)
            g    == LoopStart
            outs == {k \in (g + 1)..L : log[k][1] = "out"}
            last == IF outs = {} THEN g ELSE OutAt(g, Len(Outs))
        IN  /\ L >= 5
            /\ SubSeq(log, L - 4, L) = <<Ev("rekey", 0), Ev("inc", 0), Ev("perm", 0),
                                         Ev("copy48", 0), Ev("micros", 0)>>
            /\ \A k \in outs : k <= last
            /\ Cardinality({k \in (last + 1)..L : log[k][1] = "rekey"}) = 1
            /\ Cardinality({k \in (last + 1)..L : log[k][1] = "perm"}) = 1
            /\ stream[1] = "hash"
            /\ block = XorInto([pre |-> block.pre, base |-> stream, ctr |-> 0,
                                x |-> <<>>], <<"micros", 13>>)

\* a request of exactly 32 blocks (2048 bytes) served with no credit
C20_Witness ==
    /\ lastCall.op = "rand"
    /\ lastCall.len = 2048
    /\ prev.credits = 0
    /\ Len(Outs) = 32
    /\ log[Len(log) - 4] = Ev("rekey", 0)

\* rand(buf, 0)
C20_WitnessEmpty ==
    /\ lastCall.op = "rand"
    /\ lastCall.len = 0
    /\ Len(Outs) = 0
    /\ log[Len(log) - 4] = Ev("rekey", 0)

\* The calls that run code of the engine
EngineOps == {"begin", "stir", "rand", "save", "loop", "available",
              "addNoiseSource", "setAutoSaveTime"}

\* Every ChaCha::hashCore call comes right after ++(block[12])
IncBeforePerm == \A k \in Idx("perm") : k > 1 /\ log[k - 1] = Ev("inc", 0)

\* C21 (as claimed): every permutation call is immediately preceded by an
\* increment of the counter word, and between begin and destroy no
\* operation gives the counter word a value other than by that increment
\* (words 4..15 are not assigned as a whole, the counter is where it was
\* plus the increments made).
C21_CounterNeverReset ==
    /\ IncBeforePerm
    /\ (lastCall.op \in EngineOps /\ prev.initialized = 1 /\ initialized = 1) =>
           /\ block.base = prev.block.base
           /\ block.ctr = prev.block.ctr + Cardinality(Idx("inc"))

\* C21 (amended): every permutation call made by rand, save and rekey is
\* immediately preceded by an increment of the counter word.  The counter
\* word is not preserved otherwise: every rekey replaces the whole mutable
\* region, the counter word included, by keystream, so after any operation
\* that rekeys the region is the keystream of its last rekey with the
\* counter at its value from there.
C21_CounterIncrementedThenRekeyed ==
    /\ IncBeforePerm
    /\ (lastCall.op \in EngineOps /\ Idx("rekey") # {}) =>
           /\ block.base = stream
           /\ stream[1] = "hash"
           /\ block.ctr = 0
           /\ \A r \in Idx("rekey") : log[r + 1] = Ev("inc", 0) /\ log[r + 2] = Ev("perm", 0)
                                      /\ log[r + 3] = Ev("copy48", 0)

\* save on a ready engine: its own permutation and that of its rekey
C21_Witness ==
    /\ lastCall.op = "save"
    /\ prev.initialized = 1
    /\ Cardinality(Idx("perm")) = 2
    /\ block.base # prev.block.base

\* The block b and every block that was hashed to build its mutable region,
\* back to the last begin or destroy, carry the prefix p
RECURSIVE PrefixChain(_, _)
PrefixChain(b, p) ==
    /\ b.pre = p
    /\ (b.base[1] = "hash" => PrefixChain(b.base[2], p))

C22_WitnessNotReady ==
    /\ lastCall.op = "stir"
    /\ prevCall.op = "destroy"
    /\ initialized = 0
    /\ stream[2].pre = "zero"

\* C23: stir(data, len, credit) with len > 0 XORs the input onto the
\* mutable region in consecutive chunks of at most 48 bytes and rekeys after
\* each chunk before the next one is XORed: ceil(len / 48) chunks and as
\* many rekeys; with len = 0 it XORs nothing and rekeys once.  (When the
\* call also triggers the first save at full credit, that save follows the
\* mixing and brings its own permutation and rekey.)
C23_StirChunks ==
    lastCall.op = "stir" =>
        LET len  == lastCall.len
            n    == (len + 47) \div 48
            sv   == IF Idx("save") = {} THEN Len(log) + 1 ELSE FirstOf(Idx("save"))
            mix  == 1..(sv - 1)
            xors == {k \in mix : log[k][1] = "xor"}
            rks  == {k \in mix : log[k][1] = "rekey"}
        IN  /\ log[1] = Ev("stir", len)
            /\ \A k \in DOMAIN log : (k >= sv) => log[k][1] # "xor"
            /\ len = 0 => (xors = {} /\ rks = {2} /\ sv = 7)
            /\ len > 0 =>
                   /\ Cardinality(xors) = n
                   /\ Cardinality(rks) = n
                   /\ sv = 2 + 6 * n
                   /\ \A j \in 1..n :
                          /\ log[2 + 6 * (j - 1)]
                                 = Ev("xor", IF j < n THEN 48 ELSE len - 48 * (n - 1))
                          /\ log[3 + 6 * (j - 1)] = Ev("rekey", 0)
            /\ (len > 0 /\ len <= 48 /\ Idx("save") = {}) =>
                   stream = hashCore([XorInto(prev.block, <<"data", <<"user", 0, len>>>>)
                                         EXCEPT !.ctr = @ + 1])
            /\ (len = 0 /\ Idx("save") = {}) =>
                   stream = hashCore([prev.block EXCEPT !.ctr = @ + 1])

\* stir of 100 bytes: chunks of 48, 48 and 4 bytes
C23_Witness ==
    /\ lastCall.op = "stir"
    /\ lastCall.len = 100
    /\ Cardinality(Idx("xor")) = 3
    /\ Cardinality(Idx("rekey")) >= 3

\* C24: a loop pass calls the auto-save exactly when millis() has advanced
\* by at least the auto-save interval since the most recent save of any
\* kind, the difference being taken modulo 2^32: timer is the clock reading
\* of the most recent save, and loop saves (once) exactly when
\* (now - timer) mod 2^32 >= timeout.
C24_AutoSaveWhenDue ==
    /\ (lastCall.op \in EngineOps /\ Idx("save") # {}) => timer = now
    /\ (lastCall.op \in EngineOps /\ Idx("save") = {}) => timer = prev.timer
    /\ (lastCall.op = "loop" /\ prev.count = 0) =>
           LET elapsed == (prev.now - prev.timer + CLOCK_MODULUS) % CLOCK_MODULUS
           IN  /\ Cardinality(Idx("save")) = (IF elapsed >= prev.timeout THEN 1 ELSE 0)
               /\ Cardinality(Idx("store")) = (IF elapsed >= prev.timeout THEN 1 ELSE 0)

\* the clock has wrapped since the last save and the interval has passed
C24_Witness ==
    /\ lastCall.op = "loop"
    /\ prev.now < prev.timer
    /\ Idx("save") # {}
    /\ timer = now

\* a second loop pass right after the auto-save does not save again
C24_WitnessNoRepeat ==
    /\ lastCall.op = "loop"
    /\ prevCall.op = "loop"
    /\ prev.timer = prev.now
    /\ prev.now < MINUTE_MS \div MS_UNIT
    /\ steps = 3
    /\ Idx("save") = {}

\* C25: each hardware word that loop XORs into the block lands in one of
\* the 12 mutable words (the rotating offset stays in 0..11 in every
\* reachable state, so the word index 4 + offset stays in 4..15), and
\* before loop returns the XOR is followed by trngPending being set or by a
\* rekey.
C25_TrngWordInMutableWords ==
    /\ trngPosn \in 0..11
    /\ lastCall.op = "loop" =>
           \A k \in Idx("xorword") :
               /\ log[k][2] = 4 + prev.trngPosn
               /\ log[k][2] \in 4..15
               /\ trngPosn = (prev.trngPosn + 1) % 12
               /\ \/ trngPending = 1
                  \/ \E r \in Idx("rekey") : r > k

\* the pass that XORs into the last mutable word and wraps the offset
C25_Witness ==
    /\ lastCall.op = "loop"
    /\ prev.trngPosn = 11
    /\ trngPosn = 0
    /\ Idx("xorword") # {}
    /\ trngPending = 1

\* C26: the foreground read-and-clear of the jitter accumulator (hash and
\* outBits) in loop and in mixTRNG runs with interrupts disabled, so the
\* handler never runs between the read and the clear: every sample the
\* handler has added is in a word the foreground took or still in the
\* accumulator, and interrupts are enabled again after the section on the
\* path that took a word and on the path that did not.
C26_AccumulatorCriticalSection ==
    /\ wdt.pc \in {"test", "read", "clearHash", "clearBits", "ready", "notready"}
           => wdt.ints = 0
    /\ wdt.pc \in {"idle", "use", "skip"} => wdt.ints = 1
    /\ wdt.pc = "clearHash" => wdt.value = hash
    /\ wdt.fed = wdt.got + hash
                 + (IF wdt.pc \in {"clearBits", "ready", "use"} THEN wdt.value ELSE 0)

\* loop took a word of 32 samples and the handler has added one since
C26_Witness ==
    /\ lastCall.op = "loop"
    /\ wdt.pc = "idle"
    /\ wdt.got >= 32
    /\ hash > 0
    /\ Idx("xorword") # {}

\* mixTRNG took a word inside rand
C26_WitnessMixTRNG ==
    /\ lastCall.op = "rand"
    /\ wdt.pc = "idle"
    /\ wdt.got >= 32
    /\ Ev("xor", 4) \in {log[k] : k \in DOMAIN log}

\* the not-ready path, left with interrupts enabled and samples waiting
C26_WitnessNotReady ==
    /\ wdt.pc = "skip"
    /\ wdt.ints = 1
    /\ hash > 0
    /\ outBits < 32

\* C27: between one begin and the next, stir performs its save at full
\* credit at most once, however often rand drains the credits and stir
\* fills them again: stir saves only while firstSave is 1 and clears it
\* when it does, and only a begin that runs sets firstSave again.
C27_OneSaturationSavePerBegin ==
    [][ /\ (lastCall'.op = "stir" /\ \E k \in DOMAIN log' : log'[k][1] = "save")
            => (firstSave = 1 /\ firstSave' = 0 /\ credits' = RNG_MAX_CREDITS)
        /\ (lastCall'.op = "stir" /\ firstSave = 0)
            => (firstSave' = 0 /\ store' = store)
        /\ (firstSave = 0 /\ firstSave' = 1)
            => (initialized = 0 /\ \E k \in DOMAIN log' : log'[k][1] = "init")
      ]_vars

\* credits drained by rand and filled again by stir after the one save
C27_Witness ==
    /\ lastCall.op = "stir"
    /\ prevCall.op = "rand"
    /\ prev.firstSave = 0
    /\ prev.credits < RNG_MAX_CREDITS
    /\ credits = RNG_MAX_CREDITS
    /\ initialized = 1
    /\ Idx("save") = {}

\* after destroy, begin has armed the save again and stir has saved
C27_WitnessRearmed ==
    /\ lastCall.op = "stir"
    /\ prevCall.op = "begin"
    /\ prev.firstSave = 1
    /\ steps >= 4
    /\ Idx("save") # {}
    /\ firstSave = 0

\* C28: while the engine is not ready (before the first begin, or after
\* destroy and before the next begin), loop and stir never write a seed to
\* the seed store, so after destroy the store stays erased until begin runs.
C28_NoSeedWriteWhileNotReady ==
    (lastCall.op \in {"stir", "loop"} /\ prev.initialized = 0) =>
        /\ Idx("store") = {}
        /\ store = prev.store

\* C29: whenever the engine is not ready (before the first begin, or after
\* destroy), credits is 0, so available(len) is false for every len >= 1.
C29_NoCreditsWhileNotReady ==
    initialized = 0 =>
        /\ credits = 0
        /\ \A len \in AvailLens \ {0} : ~available(credits, len)

====
